---------------------------- MODULE Spec2Model ----------------------------
(***************************************************************************)
(* Model of sicas-audit (src/src/main.rs): a command-line tool that shows, *)
(* lists, edits and deletes entries of a JAR/ZIP archive.                  *)
(*                                                                         *)
(* Strings are sequences of one-character strings, so that prefix, suffix, *)
(* substring, rfind and split are computed the way the Rust code computes  *)
(* them.  An archive is the sequence of its entries in central-directory   *)
(* order; an entry is a record [name, content].                            *)
(***************************************************************************)
EXTENDS Integers, Sequences, TLC

(***************************************************************************)
(* Bounds of the model.                                                    *)
(***************************************************************************)
MaxEntries == 4    \* longest archive of the program specification
MaxNameLen == 3    \* longest generated entry name of the filter specification
MaxPatLen  == 2    \* longest generated ignore pattern
MaxPats    == 2    \* longest ignore list drawn from PatternPool

(***************************************************************************)
(* Characters.                                                             *)
(***************************************************************************)
Upper == <<"A","B","C","D","E","F","G","H","I","J","K","L","M",
           "N","O","P","Q","R","S","T","U","V","W","X","Y","Z">>
Lower == <<"a","b","c","d","e","f","g","h","i","j","k","l","m",
           "n","o","p","q","r","s","t","u","v","w","x","y","z">>
Digits == {"0","1","2","3","4","5","6","7","8","9"}

Range(s) == {s[i] : i \in DOMAIN s}

\* char::is_ascii_alphanumeric
IsAsciiAlphanumeric(c) == c \in Range(Upper) \cup Range(Lower) \cup Digits

\* char::to_ascii_lowercase
ToAsciiLowercase(c) ==
  IF c \in Range(Upper)
    THEN Lower[CHOOSE i \in DOMAIN Upper : Upper[i] = c]
    ELSE c

\* A comparison that respects case.
EqExact(s, t) == s = t

\* str::eq_ignore_ascii_case
EqIgnoreAsciiCase(s, t) ==
  /\ Len(s) = Len(t)
  /\ \A i \in DOMAIN s : ToAsciiLowercase(s[i]) = ToAsciiLowercase(t[i])

\* str::starts_with(&str)
StartsWith(s, p) == Len(p) <= Len(s) /\ SubSeq(s, 1, Len(p)) = p

\* str::starts_with(char), str::ends_with(char)
StartsWithChar(s, c) == Len(s) > 0 /\ s[1] = c
EndsWithChar(s, c) == Len(s) > 0 /\ s[Len(s)] = c

\* str::contains(&str)
Contains(s, p) ==
  \E i \in 1..(Len(s) - Len(p) + 1) : SubSeq(s, i, i + Len(p) - 1) = p

\* str::rfind(char): the 1-based index of the last occurrence, 0 for None
RFind(s, c) ==
  IF \E i \in DOMAIN s : s[i] = c
    THEN CHOOSE i \in DOMAIN s : s[i] = c /\ \A j \in (i+1)..Len(s) : s[j] # c
    ELSE 0

\* Option<T>
None == [some |-> FALSE, val |-> <<>>]
Some(v) == [some |-> TRUE, val |-> v]
UnwrapOr(o, d) == IF o.some THEN o.val ELSE d

EMPTY_STRING == <<>>

(***************************************************************************)
(* str::split(", "): the pieces between the non-overlapping occurrences of *)
(* the separator, found left to right; the split of "" is [""].            *)
(***************************************************************************)
Separator == <<",", " ">>

RECURSIVE SplitFrom(_, _)
SplitFrom(s, piece) ==
  IF s = <<>> THEN <<piece>>
  ELSE IF StartsWith(s, Separator)
    THEN <<piece>> \o SplitFrom(SubSeq(s, Len(Separator) + 1, Len(s)), <<>>)
    ELSE SplitFrom(Tail(s), Append(piece, Head(s)))

Split(s) == SplitFrom(s, <<>>)

(***************************************************************************)
(* get_file_name: Path::new(file_path).file_name() on a Unix path.  The    *)
(* components are the pieces between '/'; empty pieces and non-leading "." *)
(* pieces are skipped; the result is None when nothing is left, when only  *)
(* the leading "." is left, or when the last component is "..".            *)
(***************************************************************************)
RECURSIVE Segments(_, _)
Segments(s, piece) ==
  IF s = <<>> THEN <<piece>>
  ELSE IF Head(s) = "/"
    THEN <<piece>> \o Segments(Tail(s), <<>>)
    ELSE Segments(Tail(s), Append(piece, Head(s)))

RECURSIVE LastComponent(_, _)
LastComponent(segs, n) ==
  IF n = 0 THEN None
  ELSE IF segs[n] = <<>> \/ segs[n] = <<".">> THEN LastComponent(segs, n - 1)
  ELSE IF segs[n] = <<".", ".">> THEN None
  ELSE Some(segs[n])

\* The whole path taken as the file name.
get_file_name_whole_path(file_path) == Some(file_path)

get_file_name(file_path) ==
  LET segs == Segments(file_path, <<>>)
  IN  LastComponent(segs, Len(segs))

(***************************************************************************)
(* get_file_extension: the substring from the last '.' of the path, kept   *)
(* only when every character after that '.' is ASCII alphanumeric.         *)
(***************************************************************************)
get_file_extension_unfiltered(file_path) ==
  LET idx == RFind(file_path, ".")
  IN  IF idx = 0 THEN EMPTY_STRING ELSE SubSeq(file_path, idx, Len(file_path))

get_file_extension(file_path) ==
  LET idx == RFind(file_path, ".")
      ext == SubSeq(file_path, idx, Len(file_path))
  IN  IF idx # 0 /\ \A i \in 2..Len(ext) : IsAsciiAlphanumeric(ext[i])
        THEN ext
        ELSE EMPTY_STRING


(***************************************************************************)
(* ZipFile::is_dir / is_file: the zip crate derives the directory flag     *)
(* from the entry name (a trailing '/' or '\'); is_file is its negation.   *)
(***************************************************************************)
is_dir(name) == EndsWithChar(name, "/") \/ EndsWithChar(name, "\\")
is_file(name) == ~is_dir(name)

(***************************************************************************)
(* traverse_archive_file, body of the inner loop for one pattern: TRUE     *)
(* when the body reaches `continue 'outer`.                                *)
(***************************************************************************)
PatternSuppresses(name, ignored_file) ==
  IF is_dir(name) \/ (EndsWithChar(ignored_file, "/") /\ Contains(name, ignored_file))
    THEN TRUE
  ELSE IF is_file(name)
    THEN IF StartsWithChar(ignored_file, ".")
           THEN EqIgnoreAsciiCase(get_file_extension(name), ignored_file)
           ELSE StartsWith(UnwrapOr(get_file_name(name), EMPTY_STRING), ignored_file)
  ELSE FALSE

\* The inner loop `for ignored_file in &ignored_files`, from pattern k on:
\* TRUE when some iteration reaches `continue 'outer`, FALSE when the loop
\* runs to its end and the name is pushed.
RECURSIVE InnerLoop(_, _, _)
InnerLoop(name, ignored_files, k) ==
  IF k > Len(ignored_files) THEN FALSE
  ELSE IF PatternSuppresses(name, ignored_files[k]) THEN TRUE
  ELSE InnerLoop(name, ignored_files, k + 1)

\* A loop that leaves at the first pattern that does not match.
InnerLoopFirstOnly(name, ignored_files) ==
  Len(ignored_files) >= 1 /\ PatternSuppresses(name, ignored_files[1])

\* A filter without the directory test.
InnerLoopNoDirTest(name, ignored_files) ==
  \E k \in DOMAIN ignored_files :
    \/ EndsWithChar(ignored_files[k], "/") /\ Contains(name, ignored_files[k])
    \/ /\ is_file(name)
       /\ PatternSuppresses(name, ignored_files[k])

Suppressed(name, ignored_files) == InnerLoop(name, ignored_files, 1)

(***************************************************************************)
(* retrieve_archive_file_contents.  by_name looks the name up in the       *)
(* archive's name map, in which a later entry of the same name replaces an *)
(* earlier one; directory markers are entries of the map like any other.   *)
(* read_to_string fails on content that is not UTF-8.                      *)
(***************************************************************************)
BinaryContents == {"<binary>"}

Ok(v) == [ok |-> TRUE, val |-> v]
Err(e) == [ok |-> FALSE, val |-> e]

by_name(archive, name) ==
  IF \E i \in DOMAIN archive : archive[i].name = name
    THEN Ok(archive[CHOOSE i \in DOMAIN archive :
                      /\ archive[i].name = name
                      /\ \A j \in (i+1)..Len(archive) : archive[j].name # name])
    ELSE Err("EntryNotFound")

retrieve_archive_file_contents(state, archive, name) ==
  IF state # "ok" THEN Err("ArchiveCorrupt")
  ELSE LET archive_file == by_name(archive, name)
       IN  IF ~archive_file.ok THEN archive_file
           ELSE IF archive_file.val.content \in BinaryContents THEN Err("EntryNotText")
           ELSE Ok(archive_file.val.content)

(***************************************************************************)
(* Inputs: entry names, archives and configurations.                       *)
(***************************************************************************)
a_txt        == <<"a", ".", "t", "x", "t">>
b_dir        == <<"b", "/">>
b_c_class    == <<"b", "/", "c", ".", "c", "l", "a", "s", "s">>
dot_gitignore == <<".", "g", "i", "t", "i", "g", "n", "o", "r", "e">>
AUDIT_TRAIL  == <<"A", "U", "D", "I", "T", "_", "T", "R", "A", "I", "L">>
report_TXT   == <<"r", "e", "p", "o", "r", "t", ".", "T", "X", "T">>
MANIFEST_MF  == <<"M", "E", "T", "A", "-", "I", "N", "F", "/",
                  "M", "A", "N", "I", "F", "E", "S", "T", ".", "M", "F">>
x_tar_gz     == <<"x", ".", "t", "a", "r", ".", "g", "z">>
win_dir      == <<"w", "\\">>
no_such_file == <<"n", "o", "p", "e">>

pat_class    == <<".", "c", "l", "a", "s", "s">>
pat_txt      == <<".", "t", "x", "t">>
pat_tar_gz   == <<".", "t", "a", "r", ".", "g", "z">>
pat_MANIFEST == <<"M", "A", "N", "I", "F", "E", "S", "T">>
pat_manifest == <<"m", "a", "n", "i", "f", "e", "s", "t">>

\* The entries the archives of the program specification are made of; a
\* directory marker stores no bytes.
EntryPool ==
  { [name |-> a_txt,         content |-> "hello"],
    [name |-> b_dir,         content |-> ""],
    [name |-> b_c_class,     content |-> "<binary>"],
    [name |-> dot_gitignore, content |-> "target"],
    [name |-> AUDIT_TRAIL,   content |-> "audit"] }

SeqsUpTo(S, n) == UNION {[1..k -> S] : k \in 0..n}

Archives == SeqsUpTo(EntryPool, MaxEntries)

RECURSIVE Join(_)
Join(pats) ==
  IF Len(pats) = 0 THEN <<>>
  ELSE IF Len(pats) = 1 THEN pats[1]
  ELSE pats[1] \o Separator \o Join(Tail(pats))

\* Values of AUDIT.IGNORED_FILES: absent, empty, or patterns joined by ", ".
IgnoredValues ==
  { None, Some(<<>>),
    Some(Join(<<pat_class, b_dir>>)),
    Some(Join(<<b_dir, pat_class>>)),
    Some(Join(<<pat_txt>>)) }

\* Values of AUDIT.AUDIT_FILE.
AuditFileValues == { None, Some(a_txt) }

Configs == [ignored : IgnoredValues, audit_file : AuditFileValues]

\* The optional file argument of show and edit, the file argument of delete.
FileArgs == { b_dir, b_c_class, no_such_file }
OptFileArgs == { None } \cup { Some(f) : f \in FileArgs }

\* What the external editor hands back for a given text.
EditorOutputs(text) == { text, "edited" }

(***************************************************************************)
(* State.                                                                  *)
(***************************************************************************)
VARIABLES
  jar,            \* the archive on disk: the sequence of its entries
  jar_state,      \* "ok", "missing" (no such path) or "corrupt" (not a zip)
  config,         \* the loaded configuration: [ignored, audit_file]
  command,        \* the parsed subcommand: [cmd, file]
  pc,             \* "main", "traverse" (inside the outer loop) or "exit"
  ignored_files,  \* traverse_archive_file's parameter
  index,          \* the outer loop's index, 1-based
  archive_files,  \* the listing under construction
  stdout,         \* what has been printed, in order
  result          \* None while running, then Some(Ok(..)) or Some(Err(..))

vars == <<jar, jar_state, config, command, pc, ignored_files, index,
          archive_files, stdout, result>>

Disk == <<jar, jar_state, config>>

NoCommand == [cmd |-> "none", file |-> None]

Init ==
  /\ jar \in Archives
  /\ jar_state \in (IF jar = <<>> THEN {"ok", "missing", "corrupt"} ELSE {"ok"})
  /\ config \in Configs
  /\ command = NoCommand
  /\ pc = "main"
  /\ ignored_files = <<>>
  /\ index = 0
  /\ archive_files = <<>>
  /\ stdout = <<>>
  /\ result = None

Exit(r) == pc' = "exit" /\ result' = Some(r)

\* Lines 68-69 and 87-88: the file argument, else AUDIT.AUDIT_FILE, else
\* "AUDIT_TRAIL".
DefaultedFile(file) == UnwrapOr(file, UnwrapOr(config.audit_file, AUDIT_TRAIL))

(***************************************************************************)
(* main, lines 56-58: the path of the archive does not exist.              *)
(***************************************************************************)
MainJarMissing ==
  /\ pc = "main"
  /\ jar_state = "missing"
  /\ Exit(Err("ArchiveNotFound"))
  /\ UNCHANGED <<Disk, command, ignored_files, index, archive_files, stdout>>

(***************************************************************************)
(* Commands::Show, lines 66-76.                                            *)
(***************************************************************************)
Show ==
  /\ pc = "main"
  /\ jar_state # "missing"
  /\ \E file \in OptFileArgs :
       LET audit_trail == retrieve_archive_file_contents(jar_state, jar, DefaultedFile(file))
       IN  /\ command' = [cmd |-> "show", file |-> file]
           /\ IF audit_trail.ok
                THEN /\ stdout' = Append(stdout, [kind |-> "content", val |-> audit_trail.val])
                     /\ Exit(Ok("unit"))
                ELSE /\ stdout' = stdout
                     /\ Exit(audit_trail)
  /\ UNCHANGED <<Disk, ignored_files, index, archive_files>>

(***************************************************************************)
(* Commands::List, lines 77-85, and traverse_archive_file, lines 135-166.  *)
(***************************************************************************)
\* Lines 79-80 and 136-138: parse IGNORED_FILES, open the archive.
ListOpen ==
  /\ pc = "main"
  /\ jar_state # "missing"
  /\ command' = [cmd |-> "list", file |-> None]
  /\ ignored_files' = Split(UnwrapOr(config.ignored, EMPTY_STRING))
  /\ IF jar_state = "corrupt"
       THEN /\ Exit(Err("ArchiveCorrupt"))
            /\ UNCHANGED <<index, archive_files>>
       ELSE /\ pc' = "traverse"
            /\ index' = 1
            /\ archive_files' = <<>>
            /\ result' = result
  /\ UNCHANGED <<Disk, stdout>>

\* Line 162, archive_files.push(..); and a push at the front instead.
PushFront(files, name) == <<name>> \o files
Push(files, name) == Append(files, name)

\* Lines 140-163: one iteration of the outer loop; by_index succeeds.
ListEntry ==
  /\ pc = "traverse"
  /\ index <= Len(jar)
  /\ archive_files' = IF Suppressed(jar[index].name, ignored_files)
                        THEN archive_files
                        ELSE Push(archive_files, jar[index].name)
  /\ index' = index + 1
  /\ UNCHANGED <<Disk, command, pc, ignored_files, stdout, result>>

\* An error path that prints what was collected so far.
ListEntryFailsPartial ==
  /\ pc = "traverse"
  /\ index <= Len(jar)
  /\ stdout' = Append(stdout, [kind |-> "listing", val |-> archive_files])
  /\ Exit(Err("ArchiveCorrupt"))
  /\ UNCHANGED <<Disk, command, ignored_files, index, archive_files>>

\* Line 141: by_index fails (the entry's header cannot be read); `?` returns
\* the error from traverse_archive_file and from main.
ListEntryFails ==
  /\ pc = "traverse"
  /\ index <= Len(jar)
  /\ Exit(Err("ArchiveCorrupt"))
  /\ UNCHANGED <<Disk, command, ignored_files, index, archive_files, stdout>>

\* Lines 165 and 83-84: the loop is over; the listing is returned and printed.
ListPrint ==
  /\ pc = "traverse"
  /\ index > Len(jar)
  /\ stdout' = Append(stdout, [kind |-> "listing", val |-> archive_files])
  /\ Exit(Ok("unit"))
  /\ UNCHANGED <<Disk, command, ignored_files, index, archive_files>>

(***************************************************************************)
(* Commands::Edit, lines 86-99.                                            *)
(***************************************************************************)
Edit ==
  /\ pc = "main"
  /\ jar_state # "missing"
  /\ \E file \in OptFileArgs :
       LET file_contents == retrieve_archive_file_contents(jar_state, jar, DefaultedFile(file))
       IN  /\ command' = [cmd |-> "edit", file |-> file]
           /\ IF ~file_contents.ok
                THEN /\ stdout' = stdout
                     /\ Exit(file_contents)
                ELSE \/ /\ stdout' = stdout
                        /\ Exit(Err("EditorFailed"))
                     \/ \E edited \in EditorOutputs(file_contents.val) :
                          IF file_contents.val = edited
                            THEN /\ stdout' = Append(stdout, [kind |-> "message",
                                                              val |-> "No Changes were made. Exiting..."])
                                 /\ Exit(Ok("unit"))
                            ELSE /\ stdout' = stdout
                                 /\ Exit(Ok("unit"))
  /\ UNCHANGED <<Disk, ignored_files, index, archive_files>>

(***************************************************************************)
(* Commands::Delete, lines 100-102.                                        *)
(***************************************************************************)
\* A delete that removes the named entries from the archive.
DeleteRemoves ==
  /\ pc = "main"
  /\ jar_state # "missing"
  /\ \E file \in FileArgs :
       /\ command' = [cmd |-> "delete", file |-> Some(file)]
       /\ stdout' = Append(stdout, [kind |-> "deleting", val |-> file])
       /\ jar' = SelectSeq(jar, LAMBDA e : e.name # file)
  /\ Exit(Ok("unit"))
  /\ UNCHANGED <<jar_state, config, ignored_files, index, archive_files>>

Delete ==
  /\ pc = "main"
  /\ jar_state # "missing"
  /\ \E file \in FileArgs :
       /\ command' = [cmd |-> "delete", file |-> Some(file)]
       /\ stdout' = Append(stdout, [kind |-> "deleting", val |-> file])
  /\ Exit(Ok("unit"))
  /\ UNCHANGED <<Disk, ignored_files, index, archive_files>>

Next ==
  \/ MainJarMissing
  \/ Show
  \/ ListOpen
  \/ ListEntry
  \/ ListEntryFails
  \/ ListPrint
  \/ Edit
  \/ Delete

Spec == Init /\ [][Next]_vars

(***************************************************************************)
(* The filter on its own: one entry, whose name ranges over every string   *)
(* of at most MaxNameLen characters of Alphabet and over the example       *)
(* names, listed under every ignore list that is a single generated        *)
(* pattern, one of the example lists, or at most MaxPats patterns of       *)
(* PatternPool.  The run starts inside traverse_archive_file, the archive  *)
(* open and the loop at its first entry.                                   *)
(***************************************************************************)
Alphabet == {"a", "A", ".", "/", "-"}

ExampleNames ==
  { a_txt, b_c_class, dot_gitignore, report_TXT, MANIFEST_MF, x_tar_gz, win_dir }

ExamplePatterns ==
  { pat_class, pat_txt, pat_tar_gz, pat_MANIFEST, pat_manifest }

FilterNames == SeqsUpTo(Alphabet, MaxNameLen) \cup ExampleNames

GeneratedPatterns == SeqsUpTo(Alphabet, MaxPatLen) \cup ExamplePatterns

\* One pattern of each kind the filter tells apart: extension patterns,
\* prefix patterns in both cases, a directory pattern.
PatternPool == { <<".">>, <<".", "a">>, <<"a">>, <<"A">>, <<"a", "/">> }

ExampleLists ==
  { <<pat_manifest, pat_MANIFEST>>, <<pat_MANIFEST, pat_txt>>,
    <<pat_class, b_dir>>, <<b_dir, pat_class>>, <<pat_tar_gz, pat_txt>> }

IgnoreLists ==
  { <<p>> : p \in GeneratedPatterns }
    \cup ExampleLists
    \cup UNION { [1..k -> PatternPool] : k \in 1..MaxPats }

InitFilter ==
  /\ \E name \in FilterNames :
       jar = << [name |-> name, content |-> ""] >>
  /\ jar_state = "ok"
  /\ \E pats \in IgnoreLists :
       /\ config = [ignored |-> Some(Join(pats)), audit_file |-> None]
       /\ ignored_files = Split(Join(pats))
  /\ command = [cmd |-> "list", file |-> None]
  /\ pc = "traverse"
  /\ index = 1
  /\ archive_files = <<>>
  /\ stdout = <<>>
  /\ result = None

NextFilter == ListEntry

SpecFilter == InitFilter /\ [][NextFilter]_vars

(***************************************************************************)
(* Vocabulary of the properties.                                           *)
(***************************************************************************)
\* The entries the outer loop has gone through.
Processed == 1..(index - 1)

Listed(name) == name \in Range(archive_files)

Names(archive) == [i \in DOMAIN archive |-> archive[i].name]

\* The part of a name after its last '/', the whole name when it has none.
BaseName(name) == SubSeq(name, RFind(name, "/") + 1, Len(name))

\* The extension read off the base name: from its last '.', when only ASCII
\* alphanumerics follow; otherwise empty.
BaseNameExtension(name) ==
  LET base == BaseName(name)
      dot  == RFind(base, ".")
  IN  IF dot # 0 /\ \A i \in (dot + 1)..Len(base) : IsAsciiAlphanumeric(base[i])
        THEN SubSeq(base, dot, Len(base))
        ELSE <<>>

\* name ends with pattern, compared without regard to ASCII case.
EndsWithIgnoreCase(name, p) ==
  /\ Len(p) <= Len(name)
  /\ \A i \in DOMAIN p :
       ToAsciiLowercase(name[Len(name) - Len(p) + i]) = ToAsciiLowercase(p[i])

\* A '.' followed by ASCII alphanumerics only.
IsPlainExtension(p) ==
  /\ StartsWithChar(p, ".")
  /\ \A i \in 2..Len(p) : IsAsciiAlphanumeric(p[i])

ListFinished == pc = "exit" /\ command.cmd = "list" /\ result = Some(Ok("unit"))

LastPrinted == stdout[Len(stdout)]

(***************************************************************************)
(* C1.  A directory entry is suppressed under every ignore list: no        *)
(* directory the loop has gone through is in the listing, and the listing  *)
(* holds no directory name at all.                                         *)
(***************************************************************************)
C1_DirectoriesNeverListed ==
  /\ \A i \in Processed : is_dir(jar[i].name) => ~Listed(jar[i].name)
  /\ \A k \in DOMAIN archive_files : ~is_dir(archive_files[k])

\* A directory has been filtered under the list [""] of an empty
\* configuration value, which no pattern rule can match by its content.
C1_Witness ==
  /\ index = 2
  /\ is_dir(jar[1].name)
  /\ ignored_files = << <<>> >>
  /\ archive_files = <<>>

(***************************************************************************)
(* C2.  With AUDIT.IGNORED_FILES absent or empty the ignore list is [""],  *)
(* and list on an archive without directories prints every entry name.     *)
(***************************************************************************)
C2_EmptyIgnoreListsEveryFile ==
  (command.cmd = "list" /\ config.ignored \in {None, Some(<<>>)}) =>
    /\ ignored_files = << <<>> >>
    /\ (ListFinished /\ \A i \in DOMAIN jar : is_file(jar[i].name)) =>
         LastPrinted = [kind |-> "listing", val |-> Names(jar)]

(***************************************************************************)
(* C3.  As claimed: a file whose name ends, ASCII case aside, with a       *)
(* pattern of the ignore list that starts with '.' is not listed.          *)
(***************************************************************************)
C3_DotPatternSuffixSuppressed ==
  \A i \in Processed : \A k \in DOMAIN ignored_files :
    ( /\ is_file(jar[i].name)
      /\ StartsWithChar(ignored_files[k], ".")
      /\ EndsWithIgnoreCase(jar[i].name, ignored_files[k]) )
    => ~Listed(jar[i].name)

(***************************************************************************)
(* C3, amended.  A file whose name ends, ASCII case aside, with a pattern  *)
(* of the ignore list that is a '.' followed by ASCII alphanumerics only   *)
(* is not listed.                                                          *)
(***************************************************************************)
C3_PlainExtensionSuppressed ==
  \A i \in Processed : \A k \in DOMAIN ignored_files :
    ( /\ is_file(jar[i].name)
      /\ IsPlainExtension(ignored_files[k])
      /\ EndsWithIgnoreCase(jar[i].name, ignored_files[k]) )
    => ~Listed(jar[i].name)

\* report.TXT has been filtered under [.txt] and is not listed.
C3_Witness ==
  /\ index = 2
  /\ jar[1].name = report_TXT
  /\ ignored_files = <<pat_txt>>
  /\ archive_files = <<>>

(***************************************************************************)
(* C4.  A file whose base name starts with a pattern of the ignore list    *)
(* that does not start with '.', compared exactly, is not listed, whatever *)
(* the position of the pattern; META-INF/MANIFEST.MF is listed under the   *)
(* list [manifest].                                                        *)
(***************************************************************************)
C4_PrefixPatternSuppressed ==
  /\ \A i \in Processed : \A k \in DOMAIN ignored_files :
       ( /\ is_file(jar[i].name)
         /\ ~StartsWithChar(ignored_files[k], ".")
         /\ StartsWith(BaseName(jar[i].name), ignored_files[k]) )
       => ~Listed(jar[i].name)
  /\ (index = 2 /\ jar[1].name = MANIFEST_MF /\ ignored_files = <<pat_manifest>>)
       => archive_files = <<MANIFEST_MF>>

\* META-INF/MANIFEST.MF has been filtered under a list whose second pattern
\* is MANIFEST, and is not listed.
C4_Witness ==
  /\ index = 2
  /\ jar[1].name = MANIFEST_MF
  /\ Len(ignored_files) = 2
  /\ ignored_files[2] = pat_MANIFEST
  /\ archive_files = <<>>

(***************************************************************************)
(* C5.  The listing is the sequence of the names gone through with the     *)
(* suppressed ones removed, in the archive's order and with repetitions    *)
(* kept; what list prints is that sequence for the whole archive; and the  *)
(* archive [a.txt, b/, b/c.class, .gitignore] under [.class, b/] prints    *)
(* [a.txt, .gitignore].                                                    *)
(***************************************************************************)
Survivors(archive, n) ==
  SelectSeq(SubSeq(Names(archive), 1, n), LAMBDA name : ~Suppressed(name, ignored_files))

ExampleArchiveNames == <<a_txt, b_dir, b_c_class, dot_gitignore>>

C5_ListingIsFilteredEnumeration ==
  /\ pc = "traverse" => archive_files = Survivors(jar, index - 1)
  /\ ListFinished =>
       LastPrinted = [kind |-> "listing", val |-> Survivors(jar, Len(jar))]
  /\ (ListFinished /\ Names(jar) = ExampleArchiveNames
        /\ ignored_files = <<pat_class, b_dir>>)
       => LastPrinted = [kind |-> "listing", val |-> <<a_txt, dot_gitignore>>]

\* A listing has been printed that holds two different names and one of
\* them twice, from an archive in which something was suppressed.
C5_Witness ==
  /\ ListFinished
  /\ Len(archive_files) < Len(jar)
  /\ \E i, j, k \in DOMAIN archive_files :
       /\ i < j
       /\ archive_files[i] = archive_files[j]
       /\ archive_files[k] # archive_files[i]

(***************************************************************************)
(* C6.  show and edit on the name of a directory marker stored in the      *)
(* archive fail with EntryNotFound and print nothing.                      *)
(***************************************************************************)
C6_DirectoryMarkerNotFound ==
  ( /\ pc = "exit"
    /\ command.cmd \in {"show", "edit"}
    /\ jar_state = "ok"
    /\ is_dir(DefaultedFile(command.file))
    /\ \E i \in DOMAIN jar : jar[i].name = DefaultedFile(command.file) )
  => /\ result = Some(Err("EntryNotFound"))
     /\ stdout = <<>>

(***************************************************************************)
(* C7.  list prints nothing unless it succeeds: a failed list has printed  *)
(* nothing, and a listing is printed only once the loop has gone through   *)
(* every entry.                                                            *)
(***************************************************************************)
C7_NoPartialListing ==
  /\ (command.cmd = "list" /\ (pc # "exit" \/ ~result.val.ok)) => stdout = <<>>
  /\ (command.cmd = "list" /\ stdout # <<>>) =>
       /\ ListFinished
       /\ index = Len(jar) + 1
       /\ Len(stdout) = 1

\* list has failed on a later entry, after it had kept a name.
C7_Witness ==
  /\ pc = "exit"
  /\ command.cmd = "list"
  /\ result = Some(Err("ArchiveCorrupt"))
  /\ index >= 2
  /\ index <= Len(jar)
  /\ archive_files # <<>>
  /\ stdout = <<>>

C9_ExtensionOfPathIsExtensionOfBaseName ==
  \A i \in Processed :
    is_file(jar[i].name) =>
      get_file_extension(jar[i].name) = BaseNameExtension(jar[i].name)

\* A file has been filtered whose only '.' lies in a parent segment, under
\* a pattern that starts with '.'.
C9_Witness ==
  /\ index = 2
  /\ is_file(jar[1].name)
  /\ RFind(jar[1].name, ".") # 0
  /\ RFind(jar[1].name, ".") < RFind(jar[1].name, "/")
  /\ StartsWithChar(ignored_files[1], ".")

(***************************************************************************)
(* C10.  An entry is suppressed exactly when it is a directory or some     *)
(* pattern of the list suppresses it on its own; the verdict is the same   *)
(* for every permutation of the list and for the list repeated.            *)
(***************************************************************************)
Permuted(pats, f) == [k \in DOMAIN pats |-> pats[f[k]]]

C10_VerdictIndependentOfOrder ==
  \A i \in Processed :
    LET name == jar[i].name
    IN  /\ ~Listed(name) <=>
             \/ is_dir(name)
             \/ \E k \in DOMAIN ignored_files : Suppressed(name, <<ignored_files[k]>>)
        /\ \A f \in Permutations(DOMAIN ignored_files) :
             Suppressed(name, Permuted(ignored_files, f)) <=> ~Listed(name)
        /\ Suppressed(name, ignored_files \o ignored_files) <=> ~Listed(name)

\* A file has been suppressed by the last pattern of a list whose first
\* pattern does not suppress it.
C10_Witness ==
  /\ index = 2
  /\ is_file(jar[1].name)
  /\ Len(ignored_files) >= 2
  /\ ~Suppressed(jar[1].name, <<ignored_files[1]>>)
  /\ Suppressed(jar[1].name, <<ignored_files[Len(ignored_files)]>>)
  /\ archive_files = <<>>

=============================================================================
